---- MODULE Spec2Model ----
(***************************************************************************)
(* A model of pg_migrate.py: the migration run of main (schema, sequences, *)
(* tables, batched copy), copy_data on its own inputs, the direct-transfer *)
(* optimizer try_direct_transfer, and the descriptor functions              *)
(* fix_sequence_references and get_last_modified_column.                    *)
(*                                                                          *)
(* Text (schema names, column names, declared types, default expressions)   *)
(* is a sequence of one-character strings, so that the substring tests,     *)
(* str.replace and the regular expression of the code are computed, not     *)
(* assumed.  A missing value (None, SQL NULL) of a text is the empty         *)
(* sequence; of a timestamp it is 0.  Timestamps are the integers 1..MaxV.  *)
(***************************************************************************)
EXTENDS Integers, Sequences, FiniteSets, TLC

(* ---- bounds of the model ---- *)
MaxRows ==
    2
MaxV ==
    2
MaxRuns ==
    2
MaxBatch ==
    2
MaxFaults ==
    1
MaxEnv ==
    1
MaxCopyRows ==
    3
MaxFixCols ==
    2
MaxSelCols ==
    4

VARIABLES
    pc,          \* position of the migration process (main and its callees)
    runs,        \* number of invocations of the script started so far
    result,      \* how the last invocation ended: "none", "ok", "raised", "exit1"
    args,        \* parsed arguments: incremental, batch_size
    srcConn,     \* source connection: "none", "open", "closed"
    tgtConn,     \* target connection: "none", "open", "closed"
    src,         \* source database: tables, pk, cols, rows, seqs
    tgt,         \* target database, committed state: schema, seqs, tables
    txn,         \* target connection's transaction: pending rows, aborted flag
    loc,         \* locals of main: seqIdx, tblIdx, columnsBound, exc, at, ops
    cd,          \* locals of copy_data
    dt,          \* locals of try_direct_transfer
    d,           \* inputs and outputs of the descriptor functions
    hist,        \* history: target at the start of the run, earlier outcomes
    budget       \* injected faults and environment steps still allowed

vars ==
    <<pc, runs, result, args, srcConn, tgtConn, src, tgt, txn, loc, cd, dt, d, hist, budget>>

(* ---- text ---- *)
S_nextval ==
    <<"n", "e", "x", "t", "v", "a", "l">>

S_nextval_open ==
    <<"n", "e", "x", "t", "v", "a", "l", "(", "'">>

S_regclass_close ==
    <<"'", ":", ":", "r", "e", "g", "c", "l", "a", "s", "s", ")">>

S_public ==
    <<"p", "u", "b", "l", "i", "c">>

S_stage ==
    <<"s", "t", "a", "g", "e">>

S_mypublic ==
    <<"m", "y", "p", "u", "b", "l", "i", "c">>

S_orders_id_seq ==
    <<"o", "r", "d", "e", "r", "s", "_", "i", "d", "_", "s", "e", "q">>

S_now ==
    <<"n", "o", "w", "(", ")">>

S_timestamp ==
    <<"t", "i", "m", "e", "s", "t", "a", "m", "p">>

S_date ==
    <<"d", "a", "t", "e">>

S_updated_at ==
    <<"u", "p", "d", "a", "t", "e", "d", "_", "a", "t">>

S_modified_at ==
    <<"m", "o", "d", "i", "f", "i", "e", "d", "_", "a", "t">>

S_modified ==
    <<"m", "o", "d", "i", "f", "i", "e", "d">>

S_updated ==
    <<"u", "p", "d", "a", "t", "e", "d">>

S_changed_at ==
    <<"c", "h", "a", "n", "g", "e", "d", "_", "a", "t">>

S_created_at ==
    <<"c", "r", "e", "a", "t", "e", "d", "_", "a", "t">>

S_creation_date ==
    <<"c", "r", "e", "a", "t", "i", "o", "n", "_", "d", "a", "t", "e">>

S_created ==
    <<"c", "r", "e", "a", "t", "e", "d">>

S_id ==
    <<"i", "d">>

S_name ==
    <<"n", "a", "m", "e">>

S_Last_Updated ==
    <<"L", "a", "s", "t", "_", "U", "p", "d", "a", "t", "e", "d">>

S_birth_date ==
    <<"b", "i", "r", "t", "h", "_", "d", "a", "t", "e">>

S_integer ==
    <<"i", "n", "t", "e", "g", "e", "r">>

S_text ==
    <<"t", "e", "x", "t">>

S_timestamp_wo_tz ==
    <<"t", "i", "m", "e", "s", "t", "a", "m", "p", " ", "w", "i", "t", "h", "o", "u", "t", " ", "t", "i", "m", "e", " ", "z", "o", "n", "e">>

S_YES ==
    <<"Y", "E", "S">>

S_NO ==
    <<"N", "O">>

UpperAlpha ==
    <<"A", "B", "C", "D", "E", "F", "G", "H", "I", "J", "K", "L", "M", "N", "O", "P", "Q", "R", "S", "T", "U", "V", "W", "X", "Y", "Z">>

LowerAlpha ==
    <<"a", "b", "c", "d", "e", "f", "g", "h", "i", "j", "k", "l", "m", "n", "o", "p", "q", "r", "s", "t", "u", "v", "w", "x", "y", "z">>

Digits ==
    <<"0", "1", "2", "3", "4", "5", "6", "7", "8", "9">>


NoText ==
    <<>>

(* s[i..] starts with p *)
IsPrefixAt(s, p, i) ==
    /\ i >= 1
    /\ i + Len(p) - 1 <= Len(s)
    /\ \A k \in 1..Len(p) : s[i + k - 1] = p[k]

(* Python's `p in s` *)
Contains(s, p) ==
    \E i \in 1..(Len(s) + 1) : IsPrefixAt(s, p, i)

IndexIn(c, alphabet) ==
    IF \E i \in 1..Len(alphabet) : alphabet[i] = c
    THEN CHOOSE i \in 1..Len(alphabet) : alphabet[i] = c
    ELSE 0

(* str.lower(), character by character *)
LowerChar(c) ==
    IF IndexIn(c, UpperAlpha) > 0 THEN LowerAlpha[IndexIn(c, UpperAlpha)] ELSE c

Lower(s) ==
    [i \in 1..Len(s) |-> LowerChar(s[i])]

(* the class [\w] of the regular expression *)
IsWordChar(c) ==
    \/ IndexIn(c, LowerAlpha) > 0
    \/ IndexIn(c, UpperAlpha) > 0
    \/ IndexIn(c, Digits) > 0
    \/ c = "_"

(* str.replace(old, new): every occurrence, left to right, not overlapping *)
RECURSIVE ReplaceFrom(_, _, _, _)
ReplaceFrom(s, old, new, i) ==
    IF i > Len(s) THEN <<>>
    ELSE IF IsPrefixAt(s, old, i)
         THEN new \o ReplaceFrom(s, old, new, i + Len(old))
         ELSE <<s[i]>> \o ReplaceFrom(s, old, new, i + 1)

Replace(s, old, new) ==
    IF Len(old) = 0 THEN s ELSE ReplaceFrom(s, old, new, 1)

(* number of characters from position i on that satisfy the class *)
RECURSIVE RunOfWord(_, _)
RunOfWord(s, i) ==
    IF i <= Len(s) /\ IsWordChar(s[i]) THEN 1 + RunOfWord(s, i + 1) ELSE 0

RECURSIVE RunOfNonQuote(_, _)
RunOfNonQuote(s, i) ==
    IF i <= Len(s) /\ s[i] # "'" THEN 1 + RunOfNonQuote(s, i + 1) ELSE 0

(* ([^']+)' from position k: the captured group, or NoText when it fails *)
GroupAt(s, k) ==
    LET n == RunOfNonQuote(s, k)
    IN  IF n >= 1 /\ k + n <= Len(s) THEN SubSeq(s, k, k + n - 1) ELSE NoText

(* nextval\('(?:[\w]+\.)?([^']+)' matched at position i: group 1, or NoText.
   The optional schema prefix is tried first (greedy) and dropped when the
   rest of the pattern fails after it. *)
SeqMatchAt(s, i) ==
    IF ~IsPrefixAt(s, S_nextval_open, i) THEN NoText
    ELSE LET j == i + Len(S_nextval_open)
             w == RunOfWord(s, j)
             withPrefix ==
                 IF w >= 1 /\ j + w <= Len(s) /\ s[j + w] = "."
                 THEN GroupAt(s, j + w + 1)
                 ELSE NoText
         IN  IF withPrefix # NoText THEN withPrefix ELSE GroupAt(s, j)

(* re.search: the leftmost position where the pattern matches *)
SeqMatch(s) ==
    LET hits == {i \in 1..Len(s) : SeqMatchAt(s, i) # NoText}
    IN  IF hits = {} THEN NoText
        ELSE SeqMatchAt(s, CHOOSE i \in hits : \A k \in hits : i <= k)

Dot ==
    <<".">>
Quote ==
    <<"'">>

(* ---- column descriptors and the functions over them ---- *)
Col(name, type, default, nullable) ==
    [column_name |-> name, data_type |-> type,
     column_default |-> default, is_nullable |-> nullable]

(* the rewritten default of one column, lines 191-204 *)
FixedDefault(default, source_schema, target_schema) ==
    LET seq_name == SeqMatch(default)
        step1 == Replace(default, source_schema \o Dot \o seq_name,
                         target_schema \o Dot \o seq_name)
        step2 == Replace(step1, Quote \o seq_name \o Quote,
                         Quote \o target_schema \o Dot \o seq_name \o Quote)
    IN  IF default # NoText /\ Contains(default, S_nextval) /\ seq_name # NoText
        THEN step2
        ELSE default

fix_sequence_references(source_schema, target_schema, columns) ==
    [i \in 1..Len(columns) |->
        [columns[i] EXCEPT !.column_default =
            FixedDefault(columns[i].column_default, source_schema, target_schema)]]

(* lines 240-243 *)
IsTimestampType(type) ==
    Contains(Lower(type), S_timestamp) \/ Contains(Lower(type), S_date)

RECURSIVE TimestampColumns(_)
TimestampColumns(columns) ==
    IF columns = <<>> THEN <<>>
    ELSE (IF IsTimestampType(Head(columns).data_type)
          THEN <<Head(columns).column_name>> ELSE <<>>)
         \o TimestampColumns(Tail(columns))

ModificationPatterns ==
    <<S_updated_at, S_modified_at, S_modified, S_updated, S_changed_at>>
CreationPatterns ==
    <<S_created_at, S_creation_date, S_created>>

(* inner loop: the first name of `names` whose lower-cased form contains pattern *)
RECURSIVE FirstContaining(_, _)
FirstContaining(names, pattern) ==
    IF names = <<>> THEN NoText
    ELSE IF Contains(Lower(Head(names)), pattern) THEN Head(names)
         ELSE FirstContaining(Tail(names), pattern)

(* outer loop: patterns in order, each tried over all the names *)
RECURSIVE FirstByPattern(_, _)
FirstByPattern(patterns, names) ==
    IF patterns = <<>> THEN NoText
    ELSE IF FirstContaining(names, Head(patterns)) # NoText
         THEN FirstContaining(names, Head(patterns))
         ELSE FirstByPattern(Tail(patterns), names)

(* a plausible slip: the loops nested the other way round *)
RECURSIVE FirstByColumn(_, _)
FirstByColumn(patterns, names) ==
    IF names = <<>> THEN NoText
    ELSE IF \E k \in 1..Len(patterns) : Contains(Lower(Head(names)), patterns[k])
         THEN Head(names)
         ELSE FirstByColumn(patterns, Tail(names))

MutColumnOrderFirst(columns) ==
    LET ts == TimestampColumns(columns)
    IN  IF FirstByColumn(ModificationPatterns, ts) # NoText
        THEN FirstByColumn(ModificationPatterns, ts)
        ELSE IF FirstByColumn(CreationPatterns, ts) # NoText
             THEN FirstByColumn(CreationPatterns, ts)
             ELSE IF ts # <<>> THEN ts[1] ELSE NoText

get_last_modified_column(columns) ==
    LET ts == TimestampColumns(columns)
    IN  IF FirstByPattern(ModificationPatterns, ts) # NoText
        THEN FirstByPattern(ModificationPatterns, ts)
        ELSE IF FirstByPattern(CreationPatterns, ts) # NoText
             THEN FirstByPattern(CreationPatterns, ts)
             ELSE IF ts # <<>> THEN ts[1] ELSE NoText

(* ---- the databases ---- *)
SourceSchema ==
    S_public
TargetSchema ==
    S_stage

(* base tables of the source schema, ORDER BY table_name *)
AllTables ==
    <<"orders", "payments", "tmp_empty">>
AllSeqs ==
    <<"orders_id_seq", "payments_id_seq">>
TableNames ==
    {AllTables[i] : i \in 1..Len(AllTables)}
SeqNames ==
    {AllSeqs[i] : i \in 1..Len(AllSeqs)}

OrdersColumns ==
    <<Col(S_id, S_integer,
          S_nextval_open \o S_public \o Dot \o S_orders_id_seq \o S_regclass_close, S_NO),
      Col(S_updated_at, S_timestamp_wo_tz, NoText, S_YES)>>
PaymentsColumns ==
    <<Col(S_id, S_integer, NoText, S_NO), Col(S_name, S_text, NoText, S_YES)>>

(* get_columns: information_schema.columns of one table, by ordinal position *)
get_columns(table) ==
    CASE table = "orders" -> OrdersColumns
      [] table = "payments" -> PaymentsColumns
      [] OTHER -> <<>>

(* a row: the key column id and v, the value of the table's second column
   (the timestamp of orders, 0 for NULL) *)
Row(id, v) ==
    [id |-> id, v |-> v]

(* the contents a source table can have: keys 1..n in insertion order *)
SerialRows(maxLen, values) ==
    UNION {{[i \in 1..n |-> Row(i, f[i])] : f \in [1..n -> values]} : n \in 0..maxLen}

Min(a, b) ==
    IF a <= b THEN a ELSE b

RECURSIVE MaxOf(_)
MaxOf(rows) ==
    IF rows = <<>> THEN 0
    ELSE LET m == MaxOf(Tail(rows))
         IN  IF Head(rows).v > m THEN Head(rows).v ELSE m

NoTable ==
    [exists |-> FALSE, pk |-> FALSE, rows |-> <<>>]
NoTxn ==
    [pending |-> <<>>, aborted |-> FALSE]

(* rows the target connection sees in a table: committed plus its own pending *)
Visible(table) ==
    tgt.tables[table].rows \o txn.pending

(* get_tables, get_primary_keys, get_sequences on the source catalog *)
get_tables ==
    src.tables
get_primary_keys(table) ==
    IF src.pk[table] THEN <<S_id>> ELSE <<>>
get_sequences ==
    SelectSeq(AllSeqs, LAMBDA s : src.seqs[s] > 0)
(* get_sequence_details: last_value of the source sequence *)
get_sequence_details(sequence_name) ==
    [last_value |-> src.seqs[sequence_name]]

(* ---- pure parts of the operations ---- *)

(* create_sequence_in_target on the target's sequences *)
MutCreateSequenceAlways(seqs, sequence_name, seq_details) ==
    [seqs EXCEPT ![sequence_name] = seq_details.last_value]

create_sequence_in_target(seqs, sequence_name, seq_details) ==
    IF seqs[sequence_name] > 0
    THEN seqs
    ELSE [seqs EXCEPT ![sequence_name] = seq_details.last_value]

(* CREATE TABLE IF NOT EXISTS with the PRIMARY KEY clause of lines 221-224 *)
create_table_in_target(tables, table, columns, primary_keys) ==
    IF tables[table].exists
    THEN tables
    ELSE [tables EXCEPT ![table] =
             [exists |-> TRUE, pk |-> primary_keys # <<>>, rows |-> <<>>]]

(* lines 283-287: the threshold of the WHERE clause, 0 for no clause *)
WhereClause(incremental, last_sync_time, modified_column) ==
    IF incremental /\ last_sync_time # 0 /\ modified_column # NoText
    THEN last_sync_time
    ELSE 0

(* lines 305-309: an empty target forces the full copy *)
MutNoOverride(where_clause, target_row_count) ==
    where_clause

ForceFullCopy(where_clause, target_row_count) ==
    IF target_row_count = 0 THEN 0 ELSE where_clause

(* SELECT ... FROM source {where_clause}: NULL never passes the comparison *)
MutSelectFromResume(rows, where_clause) ==
    IF where_clause = 0 THEN rows
    ELSE SelectSeq(rows, LAMBDA r : r.v >= where_clause)

SelectRows(rows, where_clause) ==
    IF where_clause = 0 THEN rows
    ELSE SelectSeq(rows, LAMBDA r : r.v > where_clause)

(* cursor.fetchmany(size) at cursor position pos *)
MutFetchOneMore(rows, pos, size) ==
    SubSeq(rows, pos + 1, Min(pos + size + 1, Len(rows)))

fetchmany(rows, pos, size) ==
    SubSeq(rows, pos + 1, Min(pos + size, Len(rows)))

(* executemany of INSERT ... ON CONFLICT DO NOTHING: the rows added to a table
   that holds `present`; only a primary key can conflict *)
MutInsertNoConflictClause(present, batch, pk) ==
    batch

RECURSIVE MutInsertSkipEqual(_, _, _)
MutInsertSkipEqual(present, batch, pk) ==
    IF batch = <<>> THEN <<>>
    ELSE LET r == Head(batch)
             clash == \E i \in 1..Len(present) : present[i] = r
         IN  IF clash THEN MutInsertSkipEqual(present, Tail(batch), pk)
             ELSE <<r>> \o MutInsertSkipEqual(present \o <<r>>, Tail(batch), pk)

RECURSIVE MutInsertOnConflictUpdate(_, _, _)
MutInsertOnConflictUpdate(present, batch, pk) ==
    IF batch = <<>> THEN <<>>
    ELSE LET r == Head(batch)
             clash == pk /\ \E i \in 1..Len(present) : present[i].id = r.id
             same == \E i \in 1..Len(present) : present[i] = r
         IN  IF clash /\ same THEN MutInsertOnConflictUpdate(present, Tail(batch), pk)
             ELSE <<r>> \o MutInsertOnConflictUpdate(present \o <<r>>, Tail(batch), pk)

RECURSIVE InsertOnConflictDoNothing(_, _, _)
InsertOnConflictDoNothing(present, batch, pk) ==
    IF batch = <<>> THEN <<>>
    ELSE LET r == Head(batch)
             clash == pk /\ \E i \in 1..Len(present) : present[i].id = r.id
         IN  IF clash THEN InsertOnConflictDoNothing(present, Tail(batch), pk)
             ELSE <<r>> \o InsertOnConflictDoNothing(present \o <<r>>, Tail(batch), pk)

(* get_last_target_timestamp, lines 521-539, on the rows the connection sees *)
MutResumeFromCheckpoint(rows, modified_column) ==
    cd.latest_time

MutResumeFromSource(rows, modified_column) ==
    IF modified_column = NoText THEN 0 ELSE MaxOf(src.rows[cd.table])

MutResumeAheadOfTarget(rows, modified_column) ==
    IF modified_column = NoText THEN 0 ELSE MaxOf(rows) + 1

LastTargetTimestamp(rows, modified_column) ==
    IF modified_column = NoText THEN 0 ELSE MaxOf(rows)

(* ---- state shared by the specifications ---- *)
NoCopy ==
    [caller |-> "none", table |-> "orders", columns |-> <<>>,
     incremental |-> FALSE, last_sync_time |-> 0, modified_column |-> NoText,
     batch_size |-> 1, where_clause |-> 0, target_row_count |-> 0,
     selected |-> <<>>, pos |-> 0, batch |-> <<>>,
     total_processed |-> 0, fetches |-> <<>>, offered |-> <<>>, latest_time |-> 0,
     count_error |-> FALSE]
NoDirect ==
    [table |-> "orders", where_clause |-> 0, same_server |-> FALSE,
     has_dblink |-> FALSE, linked |-> FALSE, result |-> "none"]
NoDescr ==
    [catalog |-> <<>>, columns |-> <<>>, source_schema |-> NoText,
     target_schema |-> NoText, once |-> <<>>, twice |-> <<>>, selected |-> NoText,
     copy_columns |-> <<>>]
NoLocals ==
    [seqIdx |-> 1, tblIdx |-> 1, columnsBound |-> FALSE, exc |-> FALSE,
     at |-> "none", ops |-> <<>>]

(* one operation of the run on the target: what was done, and to which
   sequence or table *)
Op(op, name) ==
    [op |-> op, name |-> name]
EmptyTarget ==
    [schema |-> FALSE,
     seqs |-> [s \in SeqNames |-> 0],
     tables |-> [t \in TableNames |-> NoTable]]

UseFault ==
    /\ budget.faults > 0
    /\ budget' = [budget EXCEPT !.faults = @ - 1]

(* an exception leaves the try block of main for its finally clause *)
RaiseInMain ==
    /\ pc' = "finally"
    /\ loc' = [loc EXCEPT !.exc = TRUE, !.at = pc]

(* ---- main, lines 558-633 ---- *)

(* line 559: get_connection(source); a failure ends the process, sys.exit(1) *)
ConnectSource ==
    /\ pc = "start"
    /\ \/ /\ srcConn' = "open"
          /\ pc' = "connect_target"
          /\ UNCHANGED <<result, budget>>
       \/ /\ UseFault
          /\ pc' = "done"
          /\ result' = "exit1"
          /\ UNCHANGED srcConn
    /\ UNCHANGED <<runs, args, tgtConn, src, tgt, txn, loc, cd, dt, d, hist>>

(* line 560: get_connection(target), outside the try block *)
ConnectTarget ==
    /\ pc = "connect_target"
    /\ \/ /\ tgtConn' = "open"
          /\ pc' = "schema"
          /\ UNCHANGED <<result, budget>>
       \/ /\ UseFault
          /\ pc' = "done"
          /\ result' = "exit1"
          /\ UNCHANGED tgtConn
    /\ UNCHANGED <<runs, args, srcConn, src, tgt, txn, loc, cd, dt, d, hist>>

(* lines 566-570: create_schema_if_not_exists (committed), then get_sequences *)
CreateSchema ==
    /\ pc = "schema"
    /\ \/ /\ tgt' = [tgt EXCEPT !.schema = TRUE]
          /\ txn' = NoTxn
          /\ pc' = "sequences"
          /\ loc' = [loc EXCEPT !.seqIdx = 1, !.ops = Append(@, Op("schema", ""))]
          /\ UNCHANGED budget
       \/ /\ UseFault
          /\ RaiseInMain
          /\ UNCHANGED <<tgt, txn>>
    /\ UNCHANGED <<runs, result, args, srcConn, tgtConn, src, cd, dt, d, hist>>

(* lines 573-575: one turn of the loop over the source sequences *)
CreateSequence ==
    /\ pc = "sequences"
    /\ loc.seqIdx <= Len(get_sequences)
    /\ LET seq_name == get_sequences[loc.seqIdx]
       IN  \/ /\ tgt' = [tgt EXCEPT !.seqs = create_sequence_in_target(
                             tgt.seqs, seq_name, get_sequence_details(seq_name))]
              /\ txn' = IF tgt.seqs[seq_name] > 0 THEN txn ELSE NoTxn
              /\ loc' = [loc EXCEPT !.seqIdx = @ + 1,
                                     !.ops = Append(@, Op("sequence", seq_name))]
              /\ UNCHANGED <<pc, budget>>
           \/ /\ UseFault
              /\ RaiseInMain
              /\ UNCHANGED <<tgt, txn>>
    /\ UNCHANGED <<runs, result, args, srcConn, tgtConn, src, cd, dt, d, hist>>

(* lines 573-575: the for loop has taken every source sequence *)
MutTablesAnytime ==
    TRUE

SequencesDone ==
    loc.seqIdx > Len(get_sequences)

(* lines 578-579: get_tables, after the last sequence *)
GetTables ==
    /\ pc = "sequences"
    /\ SequencesDone
    /\ pc' = "tables"
    /\ loc' = [loc EXCEPT !.tblIdx = 1]
    /\ UNCHANGED <<runs, result, args, srcConn, tgtConn, src, tgt, txn, cd, dt, d,
                   hist, budget>>

(* lines 582-597: the columns of the next table; a table without columns is
   skipped, any other is created in the target (committed) *)
CreateTable ==
    /\ pc = "tables"
    /\ loc.tblIdx <= Len(get_tables)
    /\ LET table == get_tables[loc.tblIdx]
           columns == get_columns(table)
       IN  \/ /\ columns = <<>>
              /\ loc' = [loc EXCEPT !.tblIdx = @ + 1, !.columnsBound = TRUE,
                                     !.ops = Append(@, Op("skip", table))]
              /\ UNCHANGED <<pc, tgt, txn, budget>>
           \/ /\ columns # <<>>
              /\ tgt' = [tgt EXCEPT !.tables = create_table_in_target(
                             tgt.tables, table, columns, get_primary_keys(table))]
              /\ txn' = NoTxn
              /\ pc' = "plan"
              /\ loc' = [loc EXCEPT !.columnsBound = TRUE,
                                     !.ops = Append(@, Op("create", table))]
              /\ UNCHANGED budget
           \/ /\ columns # <<>>
              /\ UseFault
              /\ pc' = "finally"
              /\ loc' = [loc EXCEPT !.columnsBound = TRUE, !.exc = TRUE, !.at = pc]
              /\ UNCHANGED <<tgt, txn>>
    /\ UNCHANGED <<runs, result, args, srcConn, tgtConn, src, cd, dt, d, hist>>

(* line 602: get_last_modified_column on the columns of each table *)
ModifiedColumnOf ==
    [table \in TableNames |-> get_last_modified_column(get_columns(table))]

(* lines 599-622: the modification column of the table and the arguments of
   copy_data; the resume point is asked of the target only in incremental
   mode with a modification column (line 609) *)
PlanIncremental ==
    /\ pc = "plan"
    /\ LET table == get_tables[loc.tblIdx]
           columns == get_columns(table)
           modified_column ==
               IF args.incremental THEN ModifiedColumnOf[table] ELSE NoText
       IN  /\ cd' = [NoCopy EXCEPT !.caller = "main", !.table = table,
                         !.columns = columns, !.incremental = args.incremental,
                         !.modified_column = modified_column,
                         !.batch_size = args.batch_size]
           /\ pc' = IF args.incremental /\ modified_column # NoText
                    THEN "resume" ELSE "cd_entry"
    /\ UNCHANGED <<runs, result, args, srcConn, tgtConn, src, tgt, txn, loc, dt, d,
                   hist, budget>>

(* lines 519-544, get_last_target_timestamp: None without a modification
   column; else MAX(modified_column) over the target table.  The query fails
   on a missing table, in an aborted transaction, or for a fault; the error
   is caught (lines 541-544), the result is None and the transaction is left
   aborted.  The result is the last_sync_time of copy_data (line 610). *)
GetLastTargetTimestamp ==
    /\ pc = "resume"
    /\ LET queryable == tgt.tables[cd.table].exists /\ ~txn.aborted
           return(value) == cd' = [cd EXCEPT !.last_sync_time = value]
       IN  \/ /\ cd.modified_column = NoText
              /\ return(0)
              /\ UNCHANGED <<txn, budget>>
           \/ /\ cd.modified_column # NoText
              /\ queryable
              /\ return(LastTargetTimestamp(Visible(cd.table), cd.modified_column))
              /\ UNCHANGED <<txn, budget>>
           \/ /\ cd.modified_column # NoText
              /\ ~queryable
              /\ return(0)
              /\ txn' = [txn EXCEPT !.aborted = TRUE]
              /\ UNCHANGED budget
           \/ /\ cd.modified_column # NoText
              /\ UseFault
              /\ return(0)
              /\ txn' = [txn EXCEPT !.aborted = TRUE]
    /\ pc' = IF cd.caller = "main" THEN "cd_entry" ELSE "resume_done"
    /\ UNCHANGED <<runs, result, args, srcConn, tgtConn, src, tgt, loc, dt, d, hist>>

(* line 625, after the loop: `columns` is the loop's last binding, and is
   unbound (UnboundLocalError) when the loop body never ran *)
FixAfterLoop ==
    /\ pc = "tables"
    /\ loc.tblIdx > Len(get_tables)
    /\ pc' = "finally"
    /\ loc' = [loc EXCEPT !.exc = ~loc.columnsBound,
                           !.at = IF loc.columnsBound THEN @ ELSE pc]
    /\ UNCHANGED <<runs, result, args, srcConn, tgtConn, src, tgt, txn, cd, dt, d,
                   hist, budget>>

(* lines 627-633: both connections are closed (an open transaction is rolled
   back); then the run returns 0 or the exception goes on *)
Finally ==
    /\ pc = "finally"
    /\ srcConn' = "closed"
    /\ tgtConn' = "closed"
    /\ txn' = NoTxn
    /\ result' = IF loc.exc THEN "raised" ELSE "ok"
    /\ pc' = "done"
    /\ UNCHANGED <<runs, args, src, tgt, loc, cd, dt, d, hist, budget>>

(* the script is started again *)
NextRun ==
    /\ pc = "done"
    /\ runs < MaxRuns
    /\ runs' = runs + 1
    /\ pc' = "start"
    /\ result' = "none"
    /\ srcConn' = "none"
    /\ tgtConn' = "none"
    /\ txn' = NoTxn
    /\ loc' = NoLocals
    /\ cd' = NoCopy
    /\ hist' = [startTgt |-> tgt.tables, prevOk |-> result = "ok",
                srcSame |-> ~hist.dirty, dirty |-> FALSE, startSeqs |-> tgt.seqs]
    /\ UNCHANGED <<args, src, tgt, dt, d, budget>>

(* ---- copy_data, lines 275-393 ---- *)

(* an exception leaves copy_data (re-raised at line 368 when inside its try) *)
MutCopyContinue ==
    IF cd.caller = "main"
    THEN pc' = "tables" /\ loc' = [loc EXCEPT !.tblIdx = @ + 1]
    ELSE pc' = "cd_raised" /\ UNCHANGED loc

CopyRaise ==
    IF cd.caller = "main"
    THEN RaiseInMain
    ELSE pc' = "cd_raised" /\ UNCHANGED loc

(* an operation of copy_data on the target table enters the log of the run *)
CopyLog(op) ==
    IF cd.caller = "main"
    THEN loc' = [loc EXCEPT !.ops = Append(@, Op(op, cd.table))]
    ELSE UNCHANGED loc

(* line 351: target_conn.commit() makes the rows of the transaction durable *)
MutCommitFirstRow(rows, pending) ==
    rows \o SubSeq(pending, 1, Min(1, Len(pending)))

CommitChunk(rows, pending) ==
    rows \o pending

(* lines 345-347: `if not batch: break` leaves the loop for line 371 *)
MutKeepFetching ==
    "cd_fetch"

AfterEmptyFetch ==
    "cd_verify"

(* lines 279-309: the WHERE clause, then the row count of the target table.
   The count fails when the table is missing or the transaction is already
   aborted; the error is caught, the count stays 0 and the transaction is left
   aborted.  An empty target forces the full copy.  An error of get_table_size
   (line 291, a source query outside any try) leaves copy_data. *)
CopyEntry ==
    /\ pc = "cd_entry"
    /\ LET where_clause ==
               WhereClause(cd.incremental, cd.last_sync_time, cd.modified_column)
           countable == tgt.tables[cd.table].exists /\ ~txn.aborted
           proceed(count, failed) ==
               cd' = [cd EXCEPT !.target_row_count = count,
                                !.count_error = failed,
                                !.where_clause = ForceFullCopy(where_clause, count)]
       IN  \/ /\ countable
              /\ proceed(Len(Visible(cd.table)), FALSE)
              /\ pc' = "cd_open"
              /\ UNCHANGED <<txn, loc, budget>>
           \/ /\ ~countable
              /\ proceed(0, TRUE)
              /\ txn' = [txn EXCEPT !.aborted = TRUE]
              /\ pc' = "cd_open"
              /\ UNCHANGED <<loc, budget>>
           \/ /\ countable
              /\ UseFault
              /\ proceed(0, TRUE)
              /\ txn' = [txn EXCEPT !.aborted = TRUE]
              /\ pc' = "cd_open"
              /\ UNCHANGED loc
           \/ /\ UseFault
              /\ CopyRaise
              /\ UNCHANGED <<cd, txn>>
    /\ UNCHANGED <<runs, result, args, srcConn, tgtConn, src, tgt, dt, d, hist>>

(* lines 331-339: the server-side cursor is opened on the filtered source *)
CopyOpenCursor ==
    /\ pc = "cd_open"
    /\ \/ /\ cd' = [cd EXCEPT !.selected = SelectRows(src.rows[cd.table], cd.where_clause),
                              !.pos = 0]
          /\ pc' = "cd_fetch"
          /\ UNCHANGED <<loc, budget>>
       \/ /\ UseFault
          /\ CopyRaise
          /\ UNCHANGED cd
    /\ UNCHANGED <<runs, result, args, srcConn, tgtConn, src, tgt, txn, dt, d, hist>>

(* lines 344-350: one fetch; an empty batch ends the loop, any other is
   inserted (not yet committed).  The insert fails in an aborted transaction
   and on a missing table. *)
CopyFetch ==
    /\ pc = "cd_fetch"
    /\ LET batch == fetchmany(cd.selected, cd.pos, cd.batch_size)
           insertable == tgt.tables[cd.table].exists /\ ~txn.aborted
       IN  \/ /\ batch = <<>>
              /\ pc' = AfterEmptyFetch
              /\ UNCHANGED <<cd, txn, loc, budget>>
           \/ /\ batch # <<>>
              /\ insertable
              /\ cd' = [cd EXCEPT !.batch = batch, !.pos = @ + Len(batch),
                                  !.offered = @ \o batch]
              /\ txn' = [txn EXCEPT !.pending = @ \o InsertOnConflictDoNothing(
                             Visible(cd.table), batch, tgt.tables[cd.table].pk)]
              /\ pc' = "cd_commit"
              /\ CopyLog("insert")
              /\ UNCHANGED budget
           \/ /\ batch # <<>>
              /\ ~insertable
              /\ CopyRaise
              /\ UNCHANGED <<cd, txn, budget>>
           \/ /\ UseFault
              /\ CopyRaise
              /\ txn' = [txn EXCEPT !.aborted = TRUE]
              /\ UNCHANGED cd
    /\ UNCHANGED <<runs, result, args, srcConn, tgtConn, src, tgt, dt, d, hist>>

(* lines 351-353: the chunk is committed and counted *)
CopyCommit ==
    /\ pc = "cd_commit"
    /\ \/ /\ tgt' = [tgt EXCEPT !.tables[cd.table].rows = CommitChunk(@, txn.pending)]
          /\ txn' = NoTxn
          /\ cd' = [cd EXCEPT !.total_processed = @ + Len(cd.batch),
                              !.fetches = Append(@, Len(cd.batch))]
          /\ pc' = "cd_fetch"
          /\ CopyLog("commit")
          /\ UNCHANGED budget
       \/ /\ UseFault
          /\ CopyRaise
          /\ UNCHANGED <<tgt, txn, cd>>
    /\ UNCHANGED <<runs, result, args, srcConn, tgtConn, src, dt, d, hist>>

(* lines 371-393: the verification count on the target connection (it fails
   in an aborted transaction and on a missing table), the newest source
   timestamp, and the return to the caller *)
CopyVerify ==
    /\ pc = "cd_verify"
    /\ LET countable == tgt.tables[cd.table].exists /\ ~txn.aborted
       IN  \/ /\ countable
              /\ cd' = [cd EXCEPT !.latest_time =
                            IF cd.modified_column # NoText
                            THEN MaxOf(src.rows[cd.table]) ELSE 0]
              /\ IF cd.caller = "main"
                 THEN /\ pc' = "tables"
                      /\ loc' = [loc EXCEPT !.tblIdx = @ + 1,
                                            !.ops = Append(@, Op("verify", cd.table))]
                 ELSE pc' = "cd_done" /\ UNCHANGED loc
              /\ UNCHANGED budget
           \/ /\ ~countable
              /\ CopyRaise
              /\ UNCHANGED <<cd, budget>>
           \/ /\ UseFault
              /\ CopyRaise
              /\ UNCHANGED cd
    /\ UNCHANGED <<runs, result, args, srcConn, tgtConn, src, tgt, txn, dt, d, hist>>

(* ---- the environment between two runs ---- *)
UseEnv ==
    /\ pc = "done"
    /\ runs < MaxRuns
    /\ budget.env > 0
    /\ budget' = [budget EXCEPT !.env = @ - 1]

(* a row is added to a source table *)
SourceInsert ==
    /\ UseEnv
    /\ \E i \in 1..Len(src.tables) :
         LET t == src.tables[i]
         IN  /\ get_columns(t) # <<>>
             /\ Len(src.rows[t]) < MaxRows
             /\ \E v \in (IF t = "orders" THEN 0..MaxV ELSE {1}) :
                  src' = [src EXCEPT !.rows[t] = Append(@, Row(Len(@) + 1, v))]
    /\ hist' = [hist EXCEPT !.dirty = TRUE]
    /\ UNCHANGED <<pc, runs, result, args, srcConn, tgtConn, tgt, txn, loc, cd, dt, d>>

(* a source row of orders is updated in place *)
SourceUpdate ==
    /\ UseEnv
    /\ \E k \in 1..Len(src.rows["orders"]) : \E v \in 0..MaxV :
         /\ v # src.rows["orders"][k].v
         /\ src' = [src EXCEPT !.rows["orders"][k].v = v]
    /\ hist' = [hist EXCEPT !.dirty = TRUE]
    /\ UNCHANGED <<pc, runs, result, args, srcConn, tgtConn, tgt, txn, loc, cd, dt, d>>

(* nextval on a source sequence *)
SourceNextval ==
    /\ UseEnv
    /\ \E s \in SeqNames :
         /\ src.seqs[s] > 0
         /\ src' = [src EXCEPT !.seqs[s] = @ + 1]
    /\ UNCHANGED <<pc, runs, result, args, srcConn, tgtConn, tgt, txn, loc, cd, dt, d, hist>>

(* nextval on a target sequence: the target advances its own counter *)
TargetNextval ==
    /\ UseEnv
    /\ \E s \in SeqNames :
         /\ tgt.seqs[s] > 0
         /\ tgt' = [tgt EXCEPT !.seqs[s] = @ + 1]
    /\ UNCHANGED <<pc, runs, result, args, srcConn, tgtConn, src, txn, loc, cd, dt, d, hist>>

(* ---- the migration run: python pg_migrate.py, started MaxRuns times ---- *)
(* the source schema holds no table, orders alone, or all three tables *)
SourceTableLists ==
    {<<>>, <<"orders">>, AllTables}

SourceStates ==
    {[tables |-> tables,
      pk |-> [t \in TableNames |-> t = "orders" /\ opk],
      rows |-> [t \in TableNames |->
                   CASE t = "orders" -> orows
                     [] t = "payments" -> prows
                     [] OTHER -> <<>>],
      seqs |-> [s \in SeqNames |-> IF \E i \in 1..nseq : AllSeqs[i] = s THEN 1 ELSE 0]] :
        tables \in SourceTableLists, opk \in BOOLEAN,
        orows \in SerialRows(MaxRows, 0..MaxV), prows \in SerialRows(MaxRows, {1}),
        nseq \in 0..Len(AllSeqs)}

(* a source database: a table that is not in the schema has no rows and no
   key; a schema with tables has the id sequences of orders and payments *)
WellFormedSource(s) ==
    /\ \A i \in 1..Len(AllTables) :
         i > Len(s.tables) => s.rows[AllTables[i]] = <<>> /\ ~s.pk[AllTables[i]]
    /\ \A i \in 1..Len(AllSeqs) :
         Len(s.tables) > 0 => (s.seqs[AllSeqs[i]] > 0 <=> i <= Len(s.tables))

NoHistory ==
    [startTgt |-> EmptyTarget.tables, prevOk |-> FALSE, srcSame |-> FALSE,
     dirty |-> FALSE, startSeqs |-> EmptyTarget.seqs]

Init ==
    /\ pc = "start"
    /\ runs = 1
    /\ result = "none"
    /\ args \in [incremental : BOOLEAN, batch_size : 1..MaxBatch]
    /\ srcConn = "none"
    /\ tgtConn = "none"
    /\ src \in {s \in SourceStates : WellFormedSource(s)}
    /\ tgt = EmptyTarget
    /\ txn = NoTxn
    /\ loc = NoLocals
    /\ cd = NoCopy
    /\ dt = NoDirect
    /\ d = NoDescr
    /\ hist = NoHistory
    /\ budget = [faults |-> MaxFaults, env |-> MaxEnv]

Next ==
    \/ ConnectSource
    \/ ConnectTarget
    \/ CreateSchema
    \/ CreateSequence
    \/ GetTables
    \/ CreateTable
    \/ PlanIncremental
    \/ GetLastTargetTimestamp
    \/ CopyEntry
    \/ CopyOpenCursor
    \/ CopyFetch
    \/ CopyCommit
    \/ CopyVerify
    \/ FixAfterLoop
    \/ Finally
    \/ NextRun
    \/ SourceInsert
    \/ SourceUpdate
    \/ SourceNextval
    \/ TargetNextval

Spec ==
    Init /\ [][Next]_vars

(* ---- the runs under the scheduling of a single thread ---- *)
(* a step of the script itself: main is the only thread of the process and
   every statement and database call returns, so a step of a started run
   that can be taken is taken; starting the script again and the changes of
   the databases between runs are under no such obligation *)
RunStep ==
    \/ ConnectSource
    \/ ConnectTarget
    \/ CreateSchema
    \/ CreateSequence
    \/ GetTables
    \/ CreateTable
    \/ PlanIncremental
    \/ GetLastTargetTimestamp
    \/ CopyEntry
    \/ CopyOpenCursor
    \/ CopyFetch
    \/ CopyCommit
    \/ CopyVerify
    \/ FixAfterLoop
    \/ Finally

SpecLive ==
    Init /\ [][Next]_vars /\ WF_vars(RunStep)

(* ---- copy_data called on its own, with any arguments ---- *)
CopyTargets ==
    {[exists |-> FALSE, pk |-> FALSE, rows |-> <<>>]}
    \cup {[exists |-> TRUE, pk |-> pk, rows |-> rows] :
             pk \in BOOLEAN, rows \in {<<>>} \cup {<<Row(1, v)>> : v \in 1..MaxV}}

CallSource(rows, pk) ==
    [tables |-> <<"orders">>,
     pk |-> [t \in TableNames |-> t = "orders" /\ pk],
     rows |-> [t \in TableNames |-> IF t = "orders" THEN rows ELSE <<>>],
     seqs |-> [s \in SeqNames |-> 0]]

CallTarget(table) ==
    [schema |-> TRUE,
     seqs |-> [s \in SeqNames |-> 0],
     tables |-> [t \in TableNames |-> IF t = "orders" THEN table ELSE NoTable]]

InitCopy ==
    /\ pc = "cd_entry"
    /\ runs = 1
    /\ result = "none"
    /\ args = [incremental |-> FALSE, batch_size |-> 1]
    /\ srcConn = "open"
    /\ tgtConn = "open"
    /\ \E rows \in SerialRows(MaxCopyRows, 0..MaxV), table \in CopyTargets :
         /\ src = CallSource(rows, table.pk)
         /\ tgt = CallTarget(table)
         /\ hist = [NoHistory EXCEPT !.startTgt = CallTarget(table).tables]
    /\ txn = NoTxn
    /\ loc = NoLocals
    /\ \E incremental \in BOOLEAN, last_sync_time \in 0..MaxV,
          modified_column \in {NoText, S_updated_at}, batch_size \in 1..MaxBatch :
         cd = [NoCopy EXCEPT !.columns = OrdersColumns, !.incremental = incremental,
                             !.last_sync_time = last_sync_time,
                             !.modified_column = modified_column,
                             !.batch_size = batch_size]
    /\ dt = NoDirect
    /\ d = NoDescr
    /\ budget = [faults |-> MaxFaults, env |-> 0]

NextCopy ==
    \/ CopyEntry
    \/ CopyOpenCursor
    \/ CopyFetch
    \/ CopyCommit
    \/ CopyVerify

SpecCopy ==
    InitCopy /\ [][NextCopy]_vars

(* ---- get_last_target_timestamp called on its own, with any arguments ---- *)
ResumeTargets ==
    {NoTable}
    \cup {[exists |-> TRUE, pk |-> pk, rows |-> rows] :
             pk \in BOOLEAN, rows \in SerialRows(MaxRows, 0..MaxV)}

(* the source and cd.latest_time (what an earlier copy_data returned) are
   whatever an earlier run left *)
InitResume ==
    /\ pc = "resume"
    /\ runs = 1
    /\ result = "none"
    /\ args = [incremental |-> TRUE, batch_size |-> 1]
    /\ srcConn = "open"
    /\ tgtConn = "open"
    /\ \E rows \in SerialRows(MaxRows, 0..MaxV), table \in ResumeTargets :
         /\ src = CallSource(rows, table.pk)
         /\ tgt = CallTarget(table)
         /\ hist = [NoHistory EXCEPT !.startTgt = CallTarget(table).tables]
    /\ txn = NoTxn
    /\ loc = NoLocals
    /\ \E modified_column \in {NoText, S_updated_at}, latest_time \in 0..MaxV :
         cd = [NoCopy EXCEPT !.columns = OrdersColumns,
                             !.modified_column = modified_column,
                             !.latest_time = latest_time]
    /\ dt = NoDirect
    /\ d = NoDescr
    /\ budget = [faults |-> MaxFaults, env |-> 0]

NextResume ==
    GetLastTargetTimestamp

SpecResume ==
    InitResume /\ [][NextResume]_vars

(* ---- try_direct_transfer, lines 407-517 ---- *)

(* what the except clause of lines 515-517 makes of an exception *)
MutOuterReraise ==
    "raised"

DirectOuterExcept ==
    "False"

(* what lines 511-514 make of an exception of the dblink block: a warning,
   then the return False of line 514 *)
DirectInnerExcept ==
    "False"

DirectReturn(value) ==
    /\ pc' = "dt_return"
    /\ dt' = [dt EXCEPT !.result = value]

(* the statement fails: the transaction is aborted and the handler decides *)
DirectFail(handler) ==
    /\ UseFault
    /\ DirectReturn(handler)
    /\ txn' = [txn EXCEPT !.aborted = TRUE]
    /\ UNCHANGED tgt

(* rows of INSERT ... SELECT ... ON CONFLICT DO NOTHING on the whole selection *)
DirectInserted ==
    InsertOnConflictDoNothing(Visible(dt.table),
                              SelectRows(src.rows[dt.table], dt.where_clause),
                              tgt.tables[dt.table].pk)

(* lines 415-423: the connection parameters of both ends *)
DirectEntry ==
    /\ pc = "dt_entry"
    /\ \/ /\ pc' = IF dt.same_server THEN "dt_same_insert" ELSE "dt_dblink_check"
          /\ UNCHANGED <<dt, budget>>
       \/ /\ UseFault
          /\ DirectReturn(DirectOuterExcept)
    /\ UNCHANGED <<runs, result, args, srcConn, tgtConn, src, tgt, txn, loc, cd, d, hist>>

(* lines 430-443: INSERT ... SELECT on the shared server *)
DirectSameServerInsert ==
    /\ pc = "dt_same_insert"
    /\ \/ /\ tgt.tables[dt.table].exists
          /\ txn' = [txn EXCEPT !.pending = @ \o DirectInserted]
          /\ pc' = "dt_same_commit"
          /\ UNCHANGED <<dt, tgt, budget>>
       \/ /\ ~tgt.tables[dt.table].exists
          /\ DirectReturn(DirectOuterExcept)
          /\ txn' = [txn EXCEPT !.aborted = TRUE]
          /\ UNCHANGED <<tgt, budget>>
       \/ DirectFail(DirectOuterExcept)
    /\ UNCHANGED <<runs, result, args, srcConn, tgtConn, src, loc, cd, d, hist>>

(* lines 445-449: commit, then return True *)
DirectSameServerCommit ==
    /\ pc = "dt_same_commit"
    /\ \/ /\ tgt' = [tgt EXCEPT !.tables[dt.table].rows = @ \o txn.pending]
          /\ txn' = NoTxn
          /\ DirectReturn("True")
          /\ UNCHANGED budget
       \/ DirectFail(DirectOuterExcept)
    /\ UNCHANGED <<runs, result, args, srcConn, tgtConn, src, loc, cd, d, hist>>

(* lines 454-459: is the dblink extension installed on the target *)
DirectDblinkCheck ==
    /\ pc = "dt_dblink_check"
    /\ \/ /\ dt.has_dblink
          /\ pc' = "dt_dblink_connect"
          /\ UNCHANGED <<dt, txn, tgt, budget>>
       \/ /\ ~dt.has_dblink
          /\ DirectReturn("False")
          /\ UNCHANGED <<txn, tgt, budget>>
       \/ DirectFail(DirectInnerExcept)
    /\ UNCHANGED <<runs, result, args, srcConn, tgtConn, src, loc, cd, d, hist>>

(* lines 463-470: dblink_connect to the source *)
DirectDblinkConnect ==
    /\ pc = "dt_dblink_connect"
    /\ \/ /\ dt' = [dt EXCEPT !.linked = TRUE]
          /\ pc' = "dt_dblink_insert"
          /\ UNCHANGED <<txn, tgt, budget>>
       \/ DirectFail(DirectInnerExcept)
    /\ UNCHANGED <<runs, result, args, srcConn, tgtConn, src, loc, cd, d, hist>>

(* lines 477-503: the insert of the rows selected through the link *)
DirectDblinkInsert ==
    /\ pc = "dt_dblink_insert"
    /\ \/ /\ tgt.tables[dt.table].exists
          /\ txn' = [txn EXCEPT !.pending = @ \o DirectInserted]
          /\ pc' = "dt_dblink_disconnect"
          /\ UNCHANGED <<dt, tgt, budget>>
       \/ /\ ~tgt.tables[dt.table].exists
          /\ DirectReturn(DirectInnerExcept)
          /\ txn' = [txn EXCEPT !.aborted = TRUE]
          /\ UNCHANGED <<tgt, budget>>
       \/ DirectFail(DirectInnerExcept)
    /\ UNCHANGED <<runs, result, args, srcConn, tgtConn, src, loc, cd, d, hist>>

(* line 506: dblink_disconnect *)
DirectDblinkDisconnect ==
    /\ pc = "dt_dblink_disconnect"
    /\ \/ /\ dt' = [dt EXCEPT !.linked = FALSE]
          /\ pc' = "dt_dblink_commit"
          /\ UNCHANGED <<txn, tgt, budget>>
       \/ DirectFail(DirectInnerExcept)
    /\ UNCHANGED <<runs, result, args, srcConn, tgtConn, src, loc, cd, d, hist>>

(* lines 508-510: commit, then return True *)
DirectDblinkCommit ==
    /\ pc = "dt_dblink_commit"
    /\ \/ /\ tgt' = [tgt EXCEPT !.tables[dt.table].rows = @ \o txn.pending]
          /\ txn' = NoTxn
          /\ DirectReturn("True")
          /\ UNCHANGED budget
       \/ DirectFail(DirectInnerExcept)
    /\ UNCHANGED <<runs, result, args, srcConn, tgtConn, src, loc, cd, d, hist>>

InitDirect ==
    /\ pc = "dt_entry"
    /\ runs = 1
    /\ result = "none"
    /\ args = [incremental |-> FALSE, batch_size |-> 1]
    /\ srcConn = "open"
    /\ tgtConn = "open"
    /\ \E rows \in SerialRows(MaxRows, 0..MaxV), table \in CopyTargets :
         /\ src = CallSource(rows, table.pk)
         /\ tgt = CallTarget(table)
         /\ hist = [NoHistory EXCEPT !.startTgt = CallTarget(table).tables]
    /\ txn = NoTxn
    /\ loc = NoLocals
    /\ cd = NoCopy
    /\ \E where_clause \in 0..MaxV, same_server \in BOOLEAN, has_dblink \in BOOLEAN :
         dt = [NoDirect EXCEPT !.where_clause = where_clause,
                               !.same_server = same_server, !.has_dblink = has_dblink]
    /\ d = NoDescr
    /\ budget = [faults |-> MaxFaults, env |-> 0]

NextDirect ==
    \/ DirectEntry
    \/ DirectSameServerInsert
    \/ DirectSameServerCommit
    \/ DirectDblinkCheck
    \/ DirectDblinkConnect
    \/ DirectDblinkInsert
    \/ DirectDblinkDisconnect
    \/ DirectDblinkCommit

SpecDirect ==
    InitDirect /\ [][NextDirect]_vars

(* ---- the descriptor functions on their own inputs ---- *)
SchemaNames ==
    {S_public, S_stage, S_mypublic}

NextvalOf(qualifier, seq_name) ==
    S_nextval_open \o qualifier \o seq_name \o S_regclass_close

(* column defaults: none, a default without nextval, and nextval on a sequence
   name that is unqualified or qualified with one of the schema names *)
Defaults ==
    {NoText, S_now, NextvalOf(NoText, S_orders_id_seq)}
    \cup {NextvalOf(q \o Dot, S_orders_id_seq) : q \in SchemaNames}

FixPool ==
    {Col(S_id, S_integer, default, S_NO) : default \in Defaults}
    \cup {Col(S_name, S_text, default, S_YES) : default \in {NoText, S_now}}

SelPool ==
    {Col(S_id, S_integer, NoText, S_NO),
     Col(S_name, S_text, NoText, S_YES),
     Col(S_updated_at, S_timestamp_wo_tz, NoText, S_YES),
     Col(S_created_at, S_timestamp_wo_tz, NoText, S_YES),
     Col(S_modified, S_text, NoText, S_YES),
     Col(S_Last_Updated, S_date, NoText, S_YES),
     Col(S_birth_date, S_date, NoText, S_YES)}

(* column lists of a table: up to maxLen columns of the pool, names distinct *)
ColumnLists(pool, maxLen) ==
    UNION {{cols \in [1..n -> pool] :
               \A i, j \in 1..n : i # j => cols[i].column_name # cols[j].column_name} :
           n \in 0..maxLen}

InitDescr(pcStart, lists, schemas) ==
    /\ pc = pcStart
    /\ runs = 1
    /\ result = "none"
    /\ args = [incremental |-> FALSE, batch_size |-> 1]
    /\ srcConn = "none"
    /\ tgtConn = "none"
    /\ src = CallSource(<<>>, FALSE)
    /\ tgt = EmptyTarget
    /\ txn = NoTxn
    /\ loc = NoLocals
    /\ cd = NoCopy
    /\ dt = NoDirect
    /\ \E columns \in lists, s \in schemas, t \in schemas :
         /\ s # t
         /\ d = [NoDescr EXCEPT !.catalog = columns, !.columns = columns,
                                !.source_schema = s, !.target_schema = t]
    /\ hist = NoHistory
    /\ budget = [faults |-> 0, env |-> 0]

InitFix ==
    InitDescr("fx_start", ColumnLists(FixPool, MaxFixCols), SchemaNames)

(* lines 200-203: the rewritten default is stored in col_copy = dict(col), so
   the list the caller passed holds what it held *)
MutFixInPlace(columns, fixed_columns) ==
    fixed_columns

ArgAfterFix(columns, fixed_columns) ==
    columns

(* fix_sequence_references on the descriptors read from the catalog, as
   create_table_in_target calls it (line 213); d.columns is the caller's list *)
FixOnce ==
    /\ pc = "fx_start"
    /\ LET fixed_columns ==
               fix_sequence_references(d.source_schema, d.target_schema, d.columns)
       IN  d' = [d EXCEPT !.once = fixed_columns,
                          !.columns = ArgAfterFix(d.columns, fixed_columns)]
    /\ pc' = "fx_once"
    /\ UNCHANGED <<runs, result, args, srcConn, tgtConn, src, tgt, txn, loc, cd, dt,
                   hist, budget>>

(* fix_sequence_references again, on the descriptors it returned *)
FixTwice ==
    /\ pc = "fx_once"
    /\ d' = [d EXCEPT !.twice =
                 fix_sequence_references(d.source_schema, d.target_schema, d.once)]
    /\ pc' = "fx_twice"
    /\ UNCHANGED <<runs, result, args, srcConn, tgtConn, src, tgt, txn, loc, cd, dt,
                   hist, budget>>

(* lines 597-617 and 279: after create_table_in_target returned, main passes
   its list `columns` to copy_data, which takes the column names from it *)
CopyColumns ==
    /\ pc = "fx_once"
    /\ d' = [d EXCEPT !.copy_columns = d.columns]
    /\ pc' = "fx_copy"
    /\ UNCHANGED <<runs, result, args, srcConn, tgtConn, src, tgt, txn, loc, cd, dt,
                   hist, budget>>

NextFix ==
    \/ FixOnce
    \/ FixTwice
    \/ CopyColumns

SpecFix ==
    InitFix /\ [][NextFix]_vars

InitSel ==
    InitDescr("sel_start", ColumnLists(SelPool, MaxSelCols), {S_public, S_stage})

(* get_last_modified_column on a column list *)
SelectColumn ==
    /\ pc = "sel_start"
    /\ d' = [d EXCEPT !.selected = get_last_modified_column(d.columns)]
    /\ pc' = "sel_done"
    /\ UNCHANGED <<runs, result, args, srcConn, tgtConn, src, tgt, txn, loc, cd, dt,
                   hist, budget>>

NextSel ==
    SelectColumn

SpecSel ==
    InitSel /\ [][NextSel]_vars

(* ======================================================================= *)
(* Properties                                                               *)
(* ======================================================================= *)

(* a run has completed and the source is as that run read it *)
RunEndedOk ==
    pc = "done" /\ result = "ok" /\ ~hist.dirty

(* this run and the one before it both completed, and no source row changed
   in between *)
SecondOfTwoCleanRuns ==
    RunEndedOk /\ runs >= 2 /\ hist.prevOk /\ hist.srcSame

(* C1: idempotence.  When a run completes after a completed run with the
   source unchanged, every table with a primary key holds exactly the rows it
   held after the first of the two runs: the same count, the same rows, no
   duplicate. *)
C1_Idempotent ==
    SecondOfTwoCleanRuns =>
        \A t \in TableNames :
            src.pk[t] => tgt.tables[t].rows = hist.startTgt[t].rows

C1_Witness ==
    /\ SecondOfTwoCleanRuns
    /\ src.pk["orders"]
    /\ ~args.incremental
    /\ Len(src.rows["orders"]) >= 2
    /\ tgt.tables["orders"].rows = src.rows["orders"]

(* C2: full-copy override.  When copy_data starts on a target table that
   holds no row, the rows it selects from the source are the whole source
   table whatever incremental, last_sync_time and modified_column are, and a
   call that returns has offered and inserted every source row. *)
C2_FullCopyOnEmptyTarget ==
    LET start == hist.startTgt["orders"]
    IN  (start.exists /\ start.rows = <<>>) =>
            /\ pc \in {"cd_fetch", "cd_commit", "cd_verify", "cd_done"} =>
                   cd.selected = src.rows["orders"]
            /\ pc = "cd_done" =>
                   /\ cd.offered = src.rows["orders"]
                   /\ tgt.tables["orders"].rows = src.rows["orders"]

C2_Witness ==
    /\ pc = "cd_done"
    /\ hist.startTgt["orders"].exists
    /\ hist.startTgt["orders"].rows = <<>>
    /\ cd.incremental
    /\ cd.modified_column # NoText
    /\ cd.last_sync_time > 0
    /\ Len(src.rows["orders"]) >= 2
    /\ \E i \in 1..Len(src.rows["orders"]) :
         src.rows["orders"][i].v <= cd.last_sync_time

(* C3: batch completeness.  A call of copy_data that returns has made
   ceil(N/B) non-empty fetches for the N selected rows and batch size B, each
   of B rows except the last, which holds the remainder; the rows offered to
   the insert are the selected rows, each once; and when no primary key can
   conflict the target table has grown by N rows. *)
C3_BatchCompleteness ==
    pc = "cd_done" =>
        LET N == Len(cd.selected)
            B == cd.batch_size
            k == Len(cd.fetches)
            start == hist.startTgt["orders"].rows
            conflictFree ==
                \/ ~tgt.tables["orders"].pk
                \/ \A i \in 1..Len(start) : \A j \in 1..N :
                       start[i].id # cd.selected[j].id
        IN  /\ k * B >= N
            /\ (k - 1) * B < N
            /\ \A i \in 1..(k - 1) : cd.fetches[i] = B
            /\ k > 0 => cd.fetches[k] = N - (k - 1) * B
            /\ cd.offered = cd.selected
            /\ cd.total_processed = N
            /\ conflictFree =>
                   Len(tgt.tables["orders"].rows) = Len(start) + N

C3_Witness ==
    /\ pc = "cd_done"
    /\ cd.batch_size = 2
    /\ cd.fetches = <<2, 1>>
    /\ Len(tgt.tables["orders"].rows) = Len(hist.startTgt["orders"].rows) + 3

(* C4: sequence non-reset.  A sequence that exists in the target keeps its
   value through every step of the migration; only the target's own nextval
   (between runs) advances it.  The turn of the sequence loop that finds the
   sequence present changes nothing in the target. *)
C4_SequenceNonReset ==
    [][/\ \A s \in SeqNames :
            tgt.seqs[s] > 0 =>
                \/ tgt.seqs'[s] = tgt.seqs[s]
                \/ pc = "done" /\ pc' = "done" /\ tgt.seqs'[s] = tgt.seqs[s] + 1
       /\ (/\ pc = "sequences"
           /\ pc' = "sequences"
           /\ loc.seqIdx <= Len(get_sequences)
           /\ tgt.seqs[get_sequences[loc.seqIdx]] > 0)
          => (tgt' = tgt /\ txn' = txn)]_vars

C4_Witness ==
    /\ runs >= 2
    /\ pc = "tables"
    /\ \E s \in SeqNames :
         /\ src.seqs[s] > 0
         /\ tgt.seqs[s] > 0
         /\ tgt.seqs[s] # src.seqs[s]
         /\ tgt.seqs[s] = hist.startSeqs[s]

(* C5: default rewrite.  For a column default that calls nextval on a sequence
   name that is unqualified or qualified with the source schema,
   fix_sequence_references yields the default that names
   target_schema.sequence_name, and a second application to its own result
   changes nothing, for every pair of distinct schema names. *)
C5_RewriteOnceAndIdempotent ==
    pc = "fx_twice" =>
        \A i \in 1..Len(d.columns) :
            LET default == d.columns[i].column_default
                covered ==
                    \/ default = NextvalOf(NoText, S_orders_id_seq)
                    \/ default = NextvalOf(d.source_schema \o Dot, S_orders_id_seq)
            IN  covered =>
                    /\ d.once[i].column_default =
                           NextvalOf(d.target_schema \o Dot, S_orders_id_seq)
                    /\ d.twice[i] = d.once[i]

(* C6: modification-column selection.  The candidates are the columns whose
   declared type contains timestamp or date.  The result is the first
   candidate whose lower-cased name contains the earliest pattern, in the
   order updated_at, modified_at, modified, updated, changed_at, created_at,
   creation_date, created, that any candidate's name contains; without such a
   pattern the first candidate; without a candidate none, and then copy_data
   builds no WHERE clause. *)
PriorityPatterns ==
    ModificationPatterns \o CreationPatterns

C6_ModificationColumn ==
    pc = "sel_done" =>
        LET cols == d.columns
            cand == {i \in 1..Len(cols) :
                        \/ Contains(Lower(cols[i].data_type), S_timestamp)
                        \/ Contains(Lower(cols[i].data_type), S_date)}
            has(i, k) == Contains(Lower(cols[i].column_name), PriorityPatterns[k])
            hits == {k \in 1..Len(PriorityPatterns) : \E i \in cand : has(i, k)}
            least(S) == CHOOSE x \in S : \A y \in S : x <= y
        IN  /\ cand = {} =>
                /\ d.selected = NoText
                /\ \A t \in 0..MaxV : WhereClause(TRUE, t, d.selected) = 0
            /\ (cand # {} /\ hits = {}) =>
                d.selected = cols[least(cand)].column_name
            /\ hits # {} =>
                d.selected =
                    cols[least({i \in cand : has(i, least(hits))})].column_name
            /\ [i \in 1..Len(cols) |-> cols[i].column_name]
                   = <<S_id, S_name, S_updated_at, S_created_at>>
                   => d.selected = S_updated_at
            /\ [i \in 1..Len(cols) |-> cols[i].column_name]
                   = <<S_id, S_name, S_created_at>>
                   => d.selected = S_created_at
            /\ d.selected # S_modified

C6_Witness ==
    /\ pc = "sel_done"
    /\ Len(d.columns) = 3
    /\ d.columns[1].column_name = S_modified
    /\ d.columns[2].column_name = S_Last_Updated
    /\ d.columns[3].column_name = S_updated_at
    /\ d.selected = S_updated_at

(* C7: a table without primary key.  The target table is created without a
   primary key, a full copy adds every source row to it, present or not, and
   the second of two clean full runs over N source rows leaves 2N rows. *)
FullMode(t) ==
    ~args.incremental \/ get_last_modified_column(get_columns(t)) = NoText

C7_NoPrimaryKeyDuplicates ==
    /\ \A t \in TableNames :
         (tgt.tables[t].exists /\ ~src.pk[t]) => ~tgt.tables[t].pk
    /\ RunEndedOk =>
         \A i \in 1..Len(src.tables) :
             LET t == src.tables[i]
             IN  (get_columns(t) # <<>> /\ ~src.pk[t] /\ FullMode(t)) =>
                     /\ tgt.tables[t].rows = hist.startTgt[t].rows \o src.rows[t]
                     /\ (SecondOfTwoCleanRuns /\ runs = 2) =>
                            Len(tgt.tables[t].rows) = 2 * Len(src.rows[t])

C7_Witness ==
    /\ SecondOfTwoCleanRuns
    /\ runs = 2
    /\ ~src.pk["orders"]
    /\ ~args.incremental
    /\ Len(src.rows["orders"]) = 2
    /\ Len(tgt.tables["orders"].rows) = 4
    /\ ~tgt.tables["orders"].pk

(* C8: direct transfer first.  Whenever main has copy_data at work on a
   table, try_direct_transfer has been called for that table and has returned
   False. *)
C8_DirectTransferFirst ==
    (cd.caller = "main"
     /\ pc \in {"cd_entry", "cd_open", "cd_fetch", "cd_commit", "cd_verify"}) =>
        (dt.result = "False" /\ dt.table = cd.table)

(* C9: try_direct_transfer never raises.  It ends with True or False; after a
   failure of any of its steps it ends with False; and it ends with True only
   when the rows of its INSERT ... SELECT are committed in the target. *)
C9_DirectNeverRaises ==
    LET start == hist.startTgt[dt.table].rows
    IN  /\ dt.result \in {"none", "True", "False"}
        /\ (pc = "dt_return" /\ budget.faults < MaxFaults) => dt.result = "False"
        /\ dt.result = "True" =>
               /\ txn = NoTxn
               /\ tgt.tables[dt.table].rows =
                      start \o InsertOnConflictDoNothing(
                                   start,
                                   SelectRows(src.rows[dt.table], dt.where_clause),
                                   tgt.tables[dt.table].pk)

C9_Witness ==
    /\ pc = "dt_return"
    /\ dt.result = "False"
    /\ budget.faults < MaxFaults
    /\ txn.pending # <<>>
    /\ tgt.tables[dt.table].rows = hist.startTgt[dt.table].rows

(* C10: connection release.  When a run has ended, however it ended, no
   connection it opened is still open. *)
C10_ConnectionsReleased ==
    pc = "done" => (srcConn # "open" /\ tgtConn # "open")

(* ---- failure of a table copy and the order of a run ---- *)

(* the exception of the run was raised by a chunk of copy_data: its fetch or
   insert (lines 344-350) or its commit (line 351) *)
ChunkFailure ==
    loc.exc /\ loc.at \in {"cd_fetch", "cd_commit"}

(* position of a table in the order of ORDER BY table_name (line 76) *)
TableRank(table) ==
    CHOOSE i \in 1..Len(AllTables) : AllTables[i] = table

TableOps ==
    {"skip", "create", "insert", "commit", "verify"}

(* C11: when a chunk fetch, insert or commit of table T fails, copy_data
   re-raises and main goes to its finally clause with the exception; the run
   ends raised; no table ordered after T is created or copied in that run (it
   is in the target as it was when the run started, and the run logged no
   operation on it); the failing step and the rest of the run leave the
   committed contents of the target unchanged. *)
C11_AbortOnFirstTableFailure ==
    /\ [](ChunkFailure =>
            /\ pc \in {"finally", "done"}
            /\ pc = "done" => result = "raised"
            /\ cd.table = get_tables[loc.tblIdx]
            /\ \A j \in 1..Len(get_tables) :
                 j > loc.tblIdx => tgt.tables[get_tables[j]] = hist.startTgt[get_tables[j]]
            /\ \A i \in 1..Len(loc.ops) :
                 loc.ops[i].op \in TableOps
                     => TableRank(loc.ops[i].name) <= TableRank(cd.table))
    /\ [][/\ (/\ cd.caller = "main"
              /\ pc \in {"cd_fetch", "cd_commit"}
              /\ pc' \notin {"cd_fetch", "cd_commit", "cd_verify"})
                 => pc' = "finally" /\ loc'.exc /\ tgt' = tgt
          /\ pc = "finally" => tgt' = tgt /\ pc' = "done"]_vars

(* the copy of payments failed in a chunk after its first chunk was committed:
   orders is complete in the target, the first chunk of payments is there,
   and tmp_empty, ordered after it, was not processed *)
C11_Witness ==
    /\ pc = "done"
    /\ result = "raised"
    /\ ChunkFailure
    /\ cd.table = "payments"
    /\ loc.tblIdx < Len(get_tables)
    /\ cd.total_processed > 0
    /\ tgt.tables["orders"].rows = src.rows["orders"]
    /\ src.rows["orders"] # <<>>
    /\ Len(tgt.tables["payments"].rows) = cd.total_processed
    /\ Len(tgt.tables["payments"].rows) < Len(src.rows["payments"])

(* C12: in the log of operations of a run, the schema comes first; every
   source sequence has been processed before any operation on a table; the
   CREATE TABLE of a table precedes its first insert and is committed; the
   tables are taken in the order of their names, and between an operation on
   one table and an operation on a later one lies the verification count of
   the earlier table (or the decision to skip it). *)
C12_RunOrder ==
    LET ops == loc.ops
        n == Len(ops)
        onTable(i) == ops[i].op \in TableOps
    IN  /\ \A i \in 1..n : ops[i].op = "schema" <=> i = 1
        /\ \A i \in 1..n :
             onTable(i) =>
                 \A q \in 1..Len(get_sequences) :
                     \E k \in 1..(i - 1) : ops[k] = Op("sequence", get_sequences[q])
        /\ \A i \in 1..n :
             ops[i].op = "create" => tgt.tables[ops[i].name].exists
        /\ \A i \in 1..n :
             ops[i].op \in {"insert", "commit", "verify"} =>
                 \E k \in 1..(i - 1) : ops[k] = Op("create", ops[i].name)
        /\ \A i \in 1..n : \A j \in (i + 1)..n :
             (onTable(i) /\ onTable(j)) =>
                 /\ TableRank(ops[i].name) <= TableRank(ops[j].name)
                 /\ ops[i].name # ops[j].name =>
                      \E k \in i..(j - 1) :
                          ops[k] \in {Op("verify", ops[i].name), Op("skip", ops[i].name)}

(* a run over two sequences and three tables that copied rows into orders and
   into payments and ended without error *)
C12_Witness ==
    /\ pc = "done"
    /\ result = "ok"
    /\ Len(get_sequences) = 2
    /\ Len(get_tables) = 3
    /\ \E i \in 1..Len(loc.ops) : loc.ops[i] = Op("insert", "orders")
    /\ \E i \in 1..Len(loc.ops) : loc.ops[i] = Op("insert", "payments")
    /\ \E i \in 1..Len(loc.ops) : loc.ops[i] = Op("skip", "tmp_empty")

(* ---- insert or skip ---- *)

(* C13: no step changes or removes a row of an existing target table with a
   primary key: the rows it held stay, with their values and in their place,
   and every row a step adds has a key the table did not hold, so the row of a
   key is never replaced by a later version of the source row. *)
C13_InsertNeverUpdates ==
    [][\A t \in TableNames :
         (tgt.tables[t].exists /\ tgt.tables[t].pk) =>
             LET old == tgt.tables[t].rows
                 new == tgt'.tables[t].rows
             IN  /\ tgt'.tables[t].exists
                 /\ tgt'.tables[t].pk
                 /\ Len(new) >= Len(old)
                 /\ SubSeq(new, 1, Len(old)) = old
                 /\ \A i \in (Len(old) + 1)..Len(new) : \A k \in 1..Len(old) :
                      new[i].id # old[k].id]_vars

(* a second run ended without error after a source row of orders was changed:
   the run offered the changed row, and the target still holds the old one *)
C13_Witness ==
    /\ pc = "done"
    /\ result = "ok"
    /\ runs = 2
    /\ cd.table = "orders"
    /\ tgt.tables["orders"].pk
    /\ \E k \in 1..Len(src.rows["orders"]) :
         /\ k <= Len(tgt.tables["orders"].rows)
         /\ tgt.tables["orders"].rows[k].id = src.rows["orders"][k].id
         /\ tgt.tables["orders"].rows[k].v # src.rows["orders"][k].v
         /\ \E i \in 1..Len(cd.offered) : cd.offered[i] = src.rows["orders"][k]
         /\ hist.startTgt["orders"].rows[k] = tgt.tables["orders"].rows[k]

(* ---- the incremental filter ---- *)

(* copy_data was given the three inputs of lines 285-287 *)
IncrementalInputs ==
    cd.incremental /\ cd.last_sync_time # 0 /\ cd.modified_column # NoText

(* the cursor of lines 331-339 has been opened and copy_data has not raised *)
CursorOpened ==
    pc \in {"cd_fetch", "cd_commit", "cd_verify", "cd_done"}

(* the rows this call of copy_data has inserted, committed or not *)
InsertedByCall ==
    LET rows == tgt.tables[cd.table].rows
    IN  SubSeq(rows, Len(hist.startTgt[cd.table].rows) + 1, Len(rows)) \o txn.pending

(* C14: with the three inputs, when the count found the target non-empty the
   cursor reads exactly the source rows whose modification value is greater
   than the resume timestamp, in source order, and at the end of the call
   exactly those were offered; with the three inputs and a non-empty target no
   row with a value up to the resume timestamp, or with no value, is inserted
   by the call; without one of the three inputs the cursor reads the whole
   source table. *)
C14_IncrementalFilter ==
    LET source == src.rows[cd.table]
        newer == SelectSeq(source, LAMBDA r : r.v > cd.last_sync_time)
    IN  /\ (IncrementalInputs /\ cd.target_row_count > 0 /\ CursorOpened)
              => /\ cd.selected = newer
                 /\ \A i \in 1..Len(cd.offered) : cd.offered[i].v > cd.last_sync_time
                 /\ pc = "cd_done" => cd.offered = newer
        /\ (IncrementalInputs /\ hist.startTgt[cd.table].rows # <<>>)
              => \A i \in 1..Len(InsertedByCall) :
                     InsertedByCall[i].v > cd.last_sync_time
        /\ (~IncrementalInputs /\ CursorOpened)
              => /\ cd.selected = source
                 /\ pc = "cd_done" => cd.offered = source

(* an incremental call on a non-empty target whose source holds a row without
   a value, a row at the resume timestamp and a newer row: the call ended and
   inserted the newer row alone *)
C14_Witness ==
    /\ pc = "cd_done"
    /\ IncrementalInputs
    /\ hist.startTgt["orders"].rows # <<>>
    /\ \E i, j, k \in 1..Len(src.rows["orders"]) :
         /\ src.rows["orders"][i].v = 0
         /\ src.rows["orders"][j].v = cd.last_sync_time
         /\ src.rows["orders"][k].v > cd.last_sync_time
         /\ InsertedByCall = <<src.rows["orders"][k]>>

(* C14 as stated, with the precondition on the target table itself: with the
   three inputs and a non-empty target table the cursor reads exactly the
   source rows newer than the resume timestamp. *)
C14_FilterOnNonEmptyTarget ==
    (IncrementalInputs /\ hist.startTgt[cd.table].rows # <<>> /\ CursorOpened)
        => cd.selected = SelectSeq(src.rows[cd.table],
                                   LAMBDA r : r.v > cd.last_sync_time)

(* ---- the row count at the start of copy_data ---- *)

(* the count query on an existing target table failed (of a fault: a timeout,
   a missing privilege) and no other statement of this call met a fault *)
OnlyCountFailed ==
    /\ cd.count_error
    /\ tgt.tables[cd.table].exists
    /\ budget.faults = MaxFaults - 1

(* C15: a failed row count at the start of copy_data is treated as a count of
   zero and forces the full copy, and copy_data goes on with the batched copy
   on the same connection: when the count query was the only statement to
   fail, copy_data does not raise. *)
C15_CountFailureNonFatal ==
    OnlyCountFailed =>
        /\ cd.target_row_count = 0
        /\ cd.where_clause = 0
        /\ pc # "cd_raised"

(* ---- the resume point ---- *)

(* C16: a call of get_last_target_timestamp never raises and leaves the target
   as it is; it returns none without a modification column, for a missing
   target table and for a table without rows (or without a value in that
   column); when its query meets no error it returns the maximum of the
   modification column over the rows of the target table; whatever the source
   holds and whatever an earlier copy_data returned, the result is none or
   that maximum. *)
C16_ResumePointFromTarget ==
    [][pc = "resume" =>
         LET table == tgt.tables[cd.table]
             value == cd'.last_sync_time
         IN  /\ pc' \in {"cd_entry", "resume_done"}
             /\ tgt' = tgt
             /\ value \in {0, MaxOf(table.rows)}
             /\ (cd.modified_column = NoText \/ ~table.exists \/ table.rows = <<>>)
                   => value = 0
             /\ (cd.modified_column # NoText /\ table.exists /\ ~txn'.aborted)
                   => value = MaxOf(table.rows)]_vars

(* the call returned the newest value of the target, which is neither the
   newest value of the source nor the value an earlier copy_data returned *)
C16_Witness ==
    /\ pc = "resume_done"
    /\ cd.last_sync_time > 0
    /\ cd.last_sync_time = MaxOf(tgt.tables["orders"].rows)
    /\ cd.last_sync_time # MaxOf(src.rows["orders"])
    /\ cd.last_sync_time # cd.latest_time
    /\ cd.latest_time > 0

(* ---- durability of chunks ---- *)

(* the rows of the chunks whose commit completed: total_processed counts them
   (line 353), in the order the cursor delivers them *)
CommittedChunks ==
    SubSeq(cd.selected, 1, cd.total_processed)

(* C17: at every point of copy_data, raised or not, the committed rows of the
   target table are its rows at the start of the call followed by the rows of
   the chunks whose commit completed (less those skipped for a key the table
   held): the chunk being fetched, inserted or committed when the call is
   interrupted or fails adds no durable row, and every chunk before it is
   there.  The counters agree with the chunks: total_processed is the sum of
   the committed chunk sizes and lags the cursor by at most the one open
   chunk, whose rows are the only uncommitted ones. *)
C17_ChunkDurability ==
    LET start == hist.startTgt[cd.table].rows
        pk == tgt.tables[cd.table].pk
        kept == SelectSeq(CommittedChunks,
                          LAMBDA r : ~pk \/ \A k \in 1..Len(start) : start[k].id # r.id)
        RECURSIVE Sum(_)
        Sum(sizes) == IF sizes = <<>> THEN 0 ELSE Head(sizes) + Sum(Tail(sizes))
    IN  /\ tgt.tables[cd.table].rows = start \o kept
        /\ cd.total_processed = Sum(cd.fetches)
        /\ cd.total_processed <= cd.pos
        /\ cd.pos - cd.total_processed <= cd.batch_size
        /\ pc \in {"cd_fetch", "cd_verify", "cd_done"} => cd.pos = cd.total_processed
        /\ \A i \in 1..Len(txn.pending) :
             \E k \in (cd.total_processed + 1)..cd.pos : cd.selected[k] = txn.pending[i]

(* the commit of a later chunk failed: its rows were inserted but are not in
   the table, the chunks before it are *)
C17_Witness ==
    /\ pc = "cd_raised"
    /\ cd.total_processed > 0
    /\ txn.pending # <<>>
    /\ Len(tgt.tables["orders"].rows) =
           Len(hist.startTgt["orders"].rows) + cd.total_processed
    /\ cd.pos > cd.total_processed

(* ---- resuming after a failed run ---- *)

(* the source rows of orders whose key the target does not hold *)
MissingInTarget ==
    SelectSeq(src.rows["orders"],
              LAMBDA r : \A k \in 1..Len(tgt.tables["orders"].rows) :
                             tgt.tables["orders"].rows[k].id # r.id)

(* C18: a run that ends without error can leave source rows of orders out of
   the target only as the resume filter allows: the run was incremental, the
   target held rows when it started, and every missing row has a modification
   value equal to or below the maximum the target held then (or none); no
   row newer than that maximum is missing.  After a run that stopped between
   chunks such rows exist (C18_Witness), and the run that skips them ends
   without error. *)
C18_ResumeGap ==
    RunEndedOk =>
        \A i \in 1..Len(MissingInTarget) :
            /\ args.incremental
            /\ hist.startTgt["orders"].rows # <<>>
            /\ MissingInTarget[i].v <= MaxOf(hist.startTgt["orders"].rows)

(* the first run failed after it had committed the first chunk of orders; the
   source did not change; the second, incremental run ended without error and
   the target still lacks a row whose value equals the maximum of the target *)
C18_Witness ==
    /\ RunEndedOk
    /\ runs = 2
    /\ args.incremental
    /\ ~hist.prevOk
    /\ hist.srcSame
    /\ hist.startTgt["orders"].rows # <<>>
    /\ \E i \in 1..Len(MissingInTarget) :
         /\ MissingInTarget[i].v > 0
         /\ MissingInTarget[i].v = MaxOf(tgt.tables["orders"].rows)

(* ---- the descriptors after synthesis ---- *)

(* C19: after fix_sequence_references ran inside create_table_in_target, the
   list the caller passed is the list read from the catalog; the returned
   list has the same columns in the same order, differing at most in the
   default; a column whose default is absent or does not contain nextval is
   returned as it was; the list copy_data receives is the catalog's. *)
C19_DescriptorsNotMutated ==
    pc # "fx_start" =>
        /\ d.columns = d.catalog
        /\ Len(d.once) = Len(d.catalog)
        /\ \A i \in 1..Len(d.catalog) :
             /\ d.once[i] = [d.catalog[i] EXCEPT !.column_default =
                                                    d.once[i].column_default]
             /\ (\/ d.catalog[i].column_default = NoText
                 \/ ~Contains(d.catalog[i].column_default, S_nextval))
                    => d.once[i] = d.catalog[i]
        /\ pc = "fx_copy" => d.copy_columns = d.catalog

(* a table with a nextval default that was rewritten and a default that was
   not touched; copy_data received the catalog's list *)
C19_Witness ==
    /\ pc = "fx_copy"
    /\ d.copy_columns = d.catalog
    /\ \E i, j \in 1..Len(d.catalog) :
         /\ Contains(d.catalog[i].column_default, S_nextval)
         /\ d.once[i].column_default # d.catalog[i].column_default
         /\ d.catalog[j].column_default = S_now
         /\ d.once[j] = d.catalog[j]

(* ---- termination ---- *)

(* C20: every started run ends; it ends by returning 0 only after the copy of
   the last table, else with the first exception (or the exit of a failed
   connect) and nothing is done after it; a fetch that returns no row leaves
   the batch loop, which does not fetch or insert again. *)
C20_Termination ==
    /\ (pc # "done") ~> (pc = "done")
    /\ [](pc = "done" =>
            /\ result \in {"ok", "raised", "exit1"}
            /\ result = "ok" => (~loc.exc /\ loc.tblIdx > Len(get_tables))
            /\ result = "raised" => loc.exc)
    /\ [][/\ loc.exc => pc' \in {"finally", "done", "start"}
          /\ (/\ pc = "cd_fetch"
              /\ fetchmany(cd.selected, cd.pos, cd.batch_size) = <<>>)
                => pc' \in {"cd_verify", "finally"}]_vars

(* a run over three tables fetched the two rows of orders in two batches, met
   the empty fetch, and went on to end without error *)
C20_Witness ==
    /\ pc = "done"
    /\ result = "ok"
    /\ Len(get_tables) = 3
    /\ Len(src.rows["orders"]) = 2
    /\ Len(src.rows["payments"]) = 2
    /\ args.batch_size = 1
    /\ \E i \in 1..Len(loc.ops) : loc.ops[i] = Op("verify", "orders")
    /\ \E i \in 1..Len(loc.ops) : loc.ops[i] = Op("verify", "payments")

(* ---- a source schema without tables ---- *)

(* the run over a schema without base tables has ended; both connects
   succeeded and no statement on the schema or on a sequence failed *)
ZeroTablesRunEnded ==
    /\ pc = "done"
    /\ get_tables = <<>>
    /\ result # "exit1"
    /\ loc.at \notin {"schema", "sequences"}

(* C21: a run over a source schema with zero base tables and any number of
   sequences, in which no database call fails, ensures the schema, creates
   the sequences, performs no table operation, closes both connections and
   returns 0 without raising. *)
C21_ZeroTablesRunSucceeds ==
    ZeroTablesRunEnded =>
        /\ tgt.schema
        /\ \A s \in SeqNames : src.seqs[s] > 0 => tgt.seqs[s] > 0
        /\ \A i \in 1..Len(loc.ops) : loc.ops[i].op \notin TableOps
        /\ srcConn = "closed"
        /\ tgtConn = "closed"
        /\ ~loc.exc
        /\ result = "ok"

(* ---- incremental completeness after a clean run ---- *)

(* a row is in a table, with its values *)
HasRow(rows, r) ==
    \E k \in 1..Len(rows) : rows[k] = r

(* the run before this one ended without error, and of the source rows of
   orders each is either in the target as that run left it, or was added
   since with a key the target did not hold and a modification value above
   the maximum the target held *)
OnlyNewerRowsAdded ==
    LET start == hist.startTgt["orders"].rows
    IN  /\ runs > 1
        /\ hist.prevOk
        /\ \A i \in 1..Len(src.rows["orders"]) :
             LET r == src.rows["orders"][i]
             IN  \/ HasRow(start, r)
                 \/ /\ \A k \in 1..Len(start) : start[k].id # r.id
                    /\ r.v > 0
                    /\ r.v > MaxOf(start)

(* C22: when the target held every source row after a run without error and
   the source has since only gained rows with new keys and modification
   values above the target's maximum, an incremental run that ends without
   error leaves every source row of the table in the target. *)
C22_IncrementalCompleteness ==
    (RunEndedOk /\ args.incremental /\ OnlyNewerRowsAdded) =>
        \A i \in 1..Len(src.rows["orders"]) :
            HasRow(tgt.tables["orders"].rows, src.rows["orders"][i])

(* between two incremental runs without error a newer row was added to a
   non-empty orders table; the second run copied it *)
C22_Witness ==
    /\ RunEndedOk
    /\ args.incremental
    /\ OnlyNewerRowsAdded
    /\ ~hist.srcSame
    /\ hist.startTgt["orders"].rows # <<>>
    /\ MaxOf(hist.startTgt["orders"].rows) > 0
    /\ Len(src.rows["orders"]) > Len(hist.startTgt["orders"].rows)
    /\ cd.where_clause = MaxOf(hist.startTgt["orders"].rows)
    /\ Len(tgt.tables["orders"].rows) = Len(src.rows["orders"])

====
